---- MODULE Spec2Model ----
(***************************************************************************)
(* A model of the synthetic_stack_futures program (src/lib.rs): one        *)
(* market, its NAV oracle gate, its governance operations, bilateral       *)
(* deals with their two margin vaults, and the close / liquidate /         *)
(* liquidate_to_im settlement paths.                                       *)
(*                                                                         *)
(* Execution model.  Every instruction handler runs on the accounts as     *)
(* they were deserialized when the instruction started:                    *)
(*   - `ctx.accounts.<token account>.amount` is the balance at entry; the  *)
(*     handlers never call reload(), so a read after a token transfer      *)
(*     still yields the entry balance (operators read `w0.tokens`);        *)
(*   - a handler that returns Err persists nothing: the record it was      *)
(*     mutating is dropped and the token transfers it made are reverted    *)
(*     with the transaction (operator Commit);                             *)
(*   - the token program's transfer fails when the source holds less than  *)
(*     the amount, and close_account fails on a non-empty account.         *)
(* Amounts are in small units so that every product stays within TLC's     *)
(* integers; the u128/i128 intermediates of the code never overflow at     *)
(* these sizes, the u16 casts are modelled with their width.               *)
(***************************************************************************)
EXTENDS Integers, Sequences, FiniteSets, TLC

\* ------------------------------------------------------------------ constants

UNIT_DECIMALS == 6

MAX_ADMINS == 5

BPS_DENOM == 10000

BREAKER_SECS == 300

DEFAULT_MM_BUFFER == 100

DEFAULT_THRESHOLD == 1

U16_MOD == 65536

U16_MAX == 65535

\* ------------------------------------------------------------------ bounds

\* the clock advances MaxTicks times, by TickStep seconds each time
MaxTicks == 2

\* the same under SpecOracle
OracleTicks == 4

TickStep == 100

\* at most MaxPartials liquidate_to_im calls succeed in a behaviour
MaxPartials == 1

\* every user's token account starts with StartBalance
StartBalance == 150

\* ------------------------------------------------------------------ identities

DefaultKey == "default"

Users == {"alice", "bob", "carol"}

Keys == Users \cup {"gov", "oracle"}

None == -1

NoKey == "none"

\* ------------------------------------------------------------------ FixedPointMath

Max(a, b) == IF a >= b THEN a ELSE b

Min(a, b) == IF a <= b THEN a ELSE b

Abs(x) == IF x >= 0 THEN x ELSE -x

\* u64/u128 saturating_sub
SatSub(a, b) == IF a >= b THEN a - b ELSE 0

\* `as u16`: keeps the low 16 bits
AsU16(x) == x % U16_MOD

\* u16::saturating_add
SatAddU16(a, b) == Min(a + b, U16_MAX)

bps(amount, rate) == (amount * rate) \div BPS_DENOM

\* Err (checked_div by zero) is represented by None
ratio_bps_u128(num, denom) == IF denom = 0 THEN None ELSE (num * BPS_DENOM) \div denom

RECURSIVE pow10_u128(_)
pow10_u128(p) == IF p = 0 THEN 1 ELSE 10 * pow10_u128(p - 1)

scale_amount(amount, from_dec, to_dec) ==
    IF from_dec = to_dec THEN amount
    ELSE IF from_dec > to_dec THEN amount \div pow10_u128(from_dec - to_dec)
    ELSE amount * pow10_u128(to_dec - from_dec)

notional_quote(size_units, nav_price, price_decimals, quote_decimals) ==
    scale_amount(size_units * nav_price, UNIT_DECIMALS + price_decimals, quote_decimals)

pnl_quote(size_units, entry_nav, close_nav, price_decimals, quote_decimals) ==
    LET diff == close_nav - entry_nav
        mag == Abs(diff) * size_units
        scaled == scale_amount(mag, UNIT_DECIMALS + price_decimals, quote_decimals)
    IN IF diff >= 0 THEN scaled ELSE -scaled

clamp_i128(x, lo, hi) == IF x < lo THEN lo ELSE IF x > hi THEN hi ELSE x

\* ------------------------------------------------------------------ state

\* partials counts the liquidate_to_im calls that succeeded (a bound of the model)
VARIABLES market, deals, tokens, closed, now, last, partials

vars == <<market, deals, tokens, closed, now, last, partials>>

\* the client_order_id values of the model
ClientOrderIds == {1}

\* the parties of the deals of the model: deal.long and deal.short
LongParty == "alice"

ShortParty == "bob"

\* token accounts: the users' accounts, the market fee vault, a deal's two margin vaults
Ata(u) == <<u, 0>>

FeeVault == <<"fee_vault", 0>>

LongVault(c) == <<"long_margin_vault", c>>

ShortVault(c) == <<"short_margin_vault", c>>

TokenAccounts ==
    {Ata(u) : u \in Users} \cup {FeeVault}
        \cup {LongVault(c) : c \in ClientOrderIds} \cup {ShortVault(c) : c \in ClientOrderIds}

NoParams ==
    [oracle_authority |-> NoKey, initial_margin_bps |-> None, maintenance_margin_bps |-> None,
     fee_bps |-> None, liquidator_bps |-> None, price_stale_seconds |-> None,
     max_leverage_bps |-> None, max_nav_jump_bps |-> None, max_confidence_bps |-> None,
     mm_buffer_bps |-> None, admin_threshold |-> None]

NoPending == [some |-> FALSE, params |-> NoParams, eta |-> 0]

\* the Market account before init_market has created it
NoMarket ==
    [exists |-> FALSE, authority |-> DefaultKey, oracle_authority |-> DefaultKey,
     price_decimals |-> 0, quote_decimals |-> 0,
     initial_margin_bps |-> 0, maintenance_margin_bps |-> 0, fee_bps |-> 0,
     liquidator_bps |-> 0, price_stale_seconds |-> 0,
     last_nav |-> 0, last_ts |-> 0, paused |-> FALSE,
     max_leverage_bps |-> 0, max_nav_jump_bps |-> 0, max_confidence_bps |-> 0,
     circuit_breaker_until |-> 0, mm_buffer_bps |-> 0,
     admin_threshold |-> 0, admins |-> [i \in 1..MAX_ADMINS |-> DefaultKey],
     pending |-> NoPending]

\* the Deal account before open_deal has created it
NoDeal ==
    [exists |-> FALSE, long |-> DefaultKey, short |-> DefaultKey, size |-> 0, entry_nav |-> 0,
     is_open |-> FALSE, long_margin |-> 0, short_margin |-> 0, client_order_id |-> 0]

NoInfo == [k |-> "none", gate |-> "Ok"]

NoCall ==
    [op |-> "none", res |-> "none", t |-> 0, info |-> NoInfo, paused |-> FALSE,
     paid |-> [u \in Users |-> 0]]

World == [market |-> market, deals |-> deals, tokens |-> tokens, closed |-> closed]

Out(res, w, info) == [res |-> res, w |-> w, info |-> info]

Init ==
    /\ market = NoMarket
    /\ deals = [c \in ClientOrderIds |-> NoDeal]
    /\ tokens = [a \in TokenAccounts |-> IF a \in {Ata(u) : u \in Users} THEN StartBalance ELSE 0]
    /\ closed = {}
    /\ now = 0
    /\ last = NoCall
    /\ partials = 0

\* What the runtime keeps of an instruction: everything when the handler returned
\* Ok, nothing when it returned Err.  `last` records the latest call made at the
\* current time and its result (NoCall once the clock has moved on).
Commit_m(name, out) ==
    /\ market' = out.w.market
    /\ deals' = out.w.deals
    /\ tokens' = out.w.tokens
    /\ closed' = out.w.closed
    /\ last' = [op |-> name, res |-> out.res, t |-> now, info |-> out.info,
                paused |-> market.paused,
                paid |-> [u \in Users |-> tokens'[Ata(u)] - tokens[Ata(u)]]]
    /\ partials' = IF name = "liquidate_to_im" /\ out.res = "Ok" THEN partials + 1 ELSE partials
    /\ UNCHANGED now

Commit(name, out) ==
    /\ market' = IF out.res = "Ok" THEN out.w.market ELSE market
    /\ deals' = IF out.res = "Ok" THEN out.w.deals ELSE deals
    /\ tokens' = IF out.res = "Ok" THEN out.w.tokens ELSE tokens
    /\ closed' = IF out.res = "Ok" THEN out.w.closed ELSE closed
    /\ last' = [op |-> name, res |-> out.res, t |-> now, info |-> out.info,
                paused |-> market.paused,
                paid |-> [u \in Users |-> tokens'[Ata(u)] - tokens[Ata(u)]]]
    /\ partials' = IF name = "liquidate_to_im" /\ out.res = "Ok" THEN partials + 1 ELSE partials
    /\ UNCHANGED now

\* ------------------------------------------------------------------ governance

\* The parameter sets the model passes to init_market.
InitParamSets ==
    { [oracle_authority |-> "oracle", price_decimals |-> 1,
       initial_margin_bps |-> 1000, maintenance_margin_bps |-> 500, fee_bps |-> 100,
       liquidator_bps |-> 5000, price_stale_seconds |-> 100,
       max_leverage_bps |-> 50000, max_nav_jump_bps |-> 1000,
       max_confidence_bps |-> None, mm_buffer_bps |-> None, admin_threshold |-> None] }

\* the decimals of the quote mint account passed to init_market
QuoteMintDecimals == 6

init_market(w0, authority, quote_mint_decimals, params) ==
    LET m ==
            [exists |-> TRUE, authority |-> authority,
             oracle_authority |-> params.oracle_authority,
             price_decimals |-> params.price_decimals,
             quote_decimals |-> quote_mint_decimals,
             initial_margin_bps |-> params.initial_margin_bps,
             maintenance_margin_bps |-> params.maintenance_margin_bps,
             fee_bps |-> params.fee_bps,
             liquidator_bps |-> params.liquidator_bps,
             price_stale_seconds |-> params.price_stale_seconds,
             last_nav |-> 0, last_ts |-> 0, paused |-> FALSE,
             max_leverage_bps |-> params.max_leverage_bps,
             max_nav_jump_bps |-> params.max_nav_jump_bps,
             max_confidence_bps |->
                 IF params.max_confidence_bps = None THEN 0 ELSE params.max_confidence_bps,
             circuit_breaker_until |-> 0,
             mm_buffer_bps |->
                 IF params.mm_buffer_bps = None THEN DEFAULT_MM_BUFFER ELSE params.mm_buffer_bps,
             admin_threshold |->
                 IF params.admin_threshold = None THEN DEFAULT_THRESHOLD
                 ELSE params.admin_threshold,
             admins |-> [i \in 1..MAX_ADMINS |-> IF i = 1 THEN authority ELSE DefaultKey],
             pending |-> NoPending]
    IN Out("Ok", [w0 EXCEPT !.market = m], NoInfo)

InitMarket ==
    /\ ~market.exists
    /\ \E params \in InitParamSets : Commit("init_market", init_market(World, "gov", QuoteMintDecimals, params))

\* an update that writes a field whether or not a value was supplied
Opt_m(x, old) == x

Opt(x, old) == IF x = None THEN old ELSE x

\* an update that clears the pause flag
apply_market_updates_m(m, p) == [m EXCEPT !.paused = FALSE]

apply_market_updates(m, p) ==
    [m EXCEPT
        !.oracle_authority = IF p.oracle_authority = NoKey THEN @ ELSE p.oracle_authority,
        !.initial_margin_bps = Opt(p.initial_margin_bps, @),
        !.maintenance_margin_bps = Opt(p.maintenance_margin_bps, @),
        !.fee_bps = Opt(p.fee_bps, @),
        !.liquidator_bps = Opt(p.liquidator_bps, @),
        !.price_stale_seconds = Opt(p.price_stale_seconds, @),
        !.max_leverage_bps = Opt(p.max_leverage_bps, @),
        !.max_nav_jump_bps = Opt(p.max_nav_jump_bps, @),
        !.max_confidence_bps = Opt(p.max_confidence_bps, @),
        !.mm_buffer_bps = Opt(p.mm_buffer_bps, @),
        !.admin_threshold = Opt(p.admin_threshold, @)]

\* remaining accounts: a sequence of [key, is_signer]
RECURSIVE CountHits(_, _)
CountHits(m, infos) ==
    IF infos = <<>> THEN 0
    ELSE LET ai == Head(infos)
             hit == ai.is_signer
                    /\ \E i \in 1..MAX_ADMINS : m.admins[i] # DefaultKey /\ m.admins[i] = ai.key
         IN (IF hit THEN 1 ELSE 0) + CountHits(m, Tail(infos))

require_multisig(m, infos) ==
    IF CountHits(m, infos) >= m.admin_threshold THEN "Ok" ELSE "NotEnoughSigners"

require_admin_or_multisig(m, authority_key, remaining) ==
    IF authority_key = m.authority THEN "Ok" ELSE require_multisig(m, remaining)

\* what `last` records of an admin call: who called with which remaining accounts,
\* the market as the call found it, and the arguments of a proposal
AdminInfo(w0, auth, authority, remaining, params, delay_secs) ==
    [k |-> "admin", gate |-> auth, caller |-> authority, remaining |-> remaining,
     pre |-> w0.market, params |-> params, delay_secs |-> delay_secs]

pause_market(w0, authority, remaining, paused) ==
    LET auth == require_admin_or_multisig(w0.market, authority, remaining)
        info == AdminInfo(w0, auth, authority, remaining, NoParams, 0)
    IN IF auth # "Ok" THEN Out(auth, w0, info)
       ELSE Out("Ok", [w0 EXCEPT !.market.paused = paused], info)

update_market_params(w0, authority, remaining, params) ==
    LET auth == require_admin_or_multisig(w0.market, authority, remaining)
        info == AdminInfo(w0, auth, authority, remaining, params, 0)
    IN IF auth # "Ok" THEN Out(auth, w0, info)
       ELSE Out("Ok", [w0 EXCEPT !.market = apply_market_updates(@, params)], info)

\* a proposal that does not replace one that is still pending
propose_market_params_m(w0, authority, remaining, params, delay_secs, t) ==
    LET auth == require_admin_or_multisig(w0.market, authority, remaining)
        info == AdminInfo(w0, auth, authority, remaining, params, delay_secs)
    IN IF auth # "Ok" THEN Out(auth, w0, info)
       ELSE IF w0.market.pending.some THEN Out("Ok", w0, info)
       ELSE Out("Ok",
                [w0 EXCEPT !.market.pending =
                    [some |-> TRUE, params |-> params, eta |-> t + delay_secs]],
                info)

propose_market_params(w0, authority, remaining, params, delay_secs, t) ==
    LET auth == require_admin_or_multisig(w0.market, authority, remaining)
        info == AdminInfo(w0, auth, authority, remaining, params, delay_secs)
    IN IF auth # "Ok" THEN Out(auth, w0, info)
       ELSE Out("Ok",
                [w0 EXCEPT !.market.pending =
                    [some |-> TRUE, params |-> params, eta |-> t + delay_secs]],
                info)

\* a timelock that is never checked
timelock_expired_m(t, eta) == TRUE

timelock_expired(t, eta) == t >= eta

execute_market_params(w0, authority, remaining, t) ==
    LET m == w0.market
        auth == require_admin_or_multisig(m, authority, remaining)
        info == AdminInfo(w0, auth, authority, remaining, NoParams, 0)
    IN IF auth # "Ok" THEN Out(auth, w0, info)
       ELSE IF ~m.pending.some THEN Out("NoPendingParams", w0, info)
       ELSE IF ~timelock_expired(t, m.pending.eta) THEN Out("TimelockNotExpired", w0, info)
       ELSE Out("Ok",
                [w0 EXCEPT !.market =
                    [apply_market_updates(@, m.pending.params) EXCEPT !.pending = NoPending]],
                info)

\* a rotation that leaves the admin set as it was
rotate_authority_m(w0, authority, remaining, new_authority) ==
    LET auth == require_admin_or_multisig(w0.market, authority, remaining)
        info == AdminInfo(w0, auth, authority, remaining, NoParams, 0)
    IN IF auth # "Ok" THEN Out(auth, w0, info)
       ELSE Out("Ok", [w0 EXCEPT !.market.authority = new_authority], info)

rotate_authority(w0, authority, remaining, new_authority) ==
    LET auth == require_admin_or_multisig(w0.market, authority, remaining)
        info == AdminInfo(w0, auth, authority, remaining, NoParams, 0)
    IN IF auth # "Ok" THEN Out(auth, w0, info)
       ELSE Out("Ok",
                [w0 EXCEPT !.market.authority = new_authority,
                           !.market.admins[1] = new_authority],
                info)

\* ------------------------------------------------------------------ OracleGate

\* `info` is what `last` records of a call: the checks it passed (gate) and, once
\* it passed them, the values the handler computed
Gated(k, gate) == [k |-> k, gate |-> gate]

\* a breaker window that still holds at circuit_breaker_until itself
breaker_active_m(t, until) == t <= until

\* the circuit breaker window check of post_nav
breaker_active(t, until) == t < until

post_nav(w0, oracle_authority, nav, nav_confidence, t) ==
    LET m == w0.market
        conf_bps == AsU16(ratio_bps_u128(nav_confidence, Max(nav, 1)))
        old == m.last_nav
        newv == nav
        diff == IF newv > old THEN newv - old ELSE old - newv
        jump == ratio_bps_u128(diff, Max(old, 1))
        jump_bps == AsU16(jump)
        gate == IF m.paused THEN "MarketPaused"
                ELSE IF m.oracle_authority # oracle_authority THEN "Unauthorized"
                ELSE IF breaker_active(t, m.circuit_breaker_until) THEN "CircuitBreaker"
                ELSE IF m.max_confidence_bps > 0 /\ nav_confidence # None
                        /\ ~(conf_bps <= m.max_confidence_bps)
                     THEN "OracleConfidenceTooWide"
                ELSE "Ok"
        info == [k |-> "post_nav", gate |-> gate, nav |-> nav, old_nav |-> old,
                 old_ts |-> m.last_ts, max_jump |-> m.max_nav_jump_bps,
                 jump |-> IF old # 0 THEN jump ELSE 0,
                 conf |-> nav_confidence, max_conf |-> m.max_confidence_bps,
                 breaker_until |-> m.circuit_breaker_until]
    IN IF gate \in {"MarketPaused", "Unauthorized"}
       THEN Out(gate, w0, Gated("post_nav", gate))
       ELSE IF gate # "Ok" THEN Out(gate, w0, info)
       ELSE IF m.last_nav # 0 /\ jump_bps > m.max_nav_jump_bps
            THEN Out("PriceJumpTooLarge",
                     [w0 EXCEPT !.market.circuit_breaker_until = t + BREAKER_SECS], info)
       ELSE Out("Ok", [w0 EXCEPT !.market.last_nav = nav, !.market.last_ts = t], info)

\* a freshness check that refuses a price exactly price_stale_seconds old
ensure_price_fresh_m(m, t) ==
    LET age == t - m.last_ts
    IN IF t < m.circuit_breaker_until THEN "CircuitBreaker"
       ELSE IF ~(m.last_nav > 0) THEN "PriceNotSet"
       ELSE IF ~(age >= 0) THEN "ClockWentBackwards"
       ELSE IF ~(age < m.price_stale_seconds) THEN "PriceStale"
       ELSE "Ok"

ensure_price_fresh(m, t) ==
    LET age == t - m.last_ts
    IN IF t < m.circuit_breaker_until THEN "CircuitBreaker"
       ELSE IF ~(m.last_nav > 0) THEN "PriceNotSet"
       ELSE IF ~(age >= 0) THEN "ClockWentBackwards"
       ELSE IF ~(age <= m.price_stale_seconds) THEN "PriceStale"
       ELSE "Ok"

\* ------------------------------------------------------------------ token program calls

\* a transfer that does not check the source balance
token_transfer_m(tok, from, to, amount) ==
    [ok |-> TRUE, tok |-> [[tok EXCEPT ![from] = @ - amount] EXCEPT ![to] = @ + amount]]

\* token::transfer: fails when the source holds less than the amount
token_transfer(tok, from, to, amount) ==
    IF tok[from] < amount THEN [ok |-> FALSE, tok |-> tok]
    ELSE [ok |-> TRUE, tok |-> [[tok EXCEPT ![from] = @ - amount] EXCEPT ![to] = @ + amount]]

transfer_from_user(tok, from, to, amount) == token_transfer(tok, from, to, amount)

transfer_signed(tok, from, to, amount) == token_transfer(tok, from, to, amount)

drain_to(tok, from_vault, to_account, amount) ==
    IF amount = 0 THEN [ok |-> TRUE, tok |-> tok]
    ELSE transfer_signed(tok, from_vault, to_account, amount)

Skip(tok) == [ok |-> TRUE, tok |-> tok]

\* close_signed_token_account: `cached` is token_acc.amount as read at entry; the
\* token program refuses to close an account that still holds tokens
close_signed_token_account(tok, cl, token_acc, cached) ==
    IF cached # 0 THEN [ok |-> TRUE, cl |-> cl]
    ELSE IF tok[token_acc] # 0 THEN [ok |-> FALSE, cl |-> cl]
    ELSE [ok |-> TRUE, cl |-> cl \cup {token_acc}]

\* ------------------------------------------------------------------ PositionLedger

\* the margin requirement of open_deal, with the fee share left out
margin_ok_m(deposit, im_required_each, open_fee_each) == deposit >= im_required_each

margin_ok(deposit, im_required_each, open_fee_each) ==
    deposit >= im_required_each + open_fee_each

\* a fee share that rounds up: the odd unit is collected from both sides
fee_share_m(open_fee_total) == open_fee_total - open_fee_total \div 2

\* each side's share of the open fee: half, rounded down
fee_share(open_fee_total) == open_fee_total \div 2

\* an `init` that accepts an account that exists already
init_deal_account_m(d) == "Ok"

\* #[account(init, ...)] of OpenDeal.deal: the account must not exist yet
init_deal_account(d) == IF d.exists THEN "AccountAlreadyInUse" ELSE "Ok"

open_deal(w0, c, size, long_deposit, short_deposit, t) ==
    LET m == w0.market
        fresh == ensure_price_fresh(m, t)
        entry_nav == m.last_nav
        notional_q == notional_quote(size, entry_nav, m.price_decimals, m.quote_decimals)
        open_fee_total == bps(notional_q, m.fee_bps)
        open_fee_each == fee_share(open_fee_total)
        im_required_each == bps(notional_q, m.initial_margin_bps)
        effective_total_margin == SatSub(long_deposit + short_deposit, open_fee_total)
        lev_bps == AsU16(ratio_bps_u128(notional_q, effective_total_margin))
        deal == [exists |-> TRUE, long |-> LongParty, short |-> ShortParty, size |-> size,
                 entry_nav |-> entry_nav, is_open |-> TRUE,
                 long_margin |-> w0.tokens[LongVault(c)],
                 short_margin |-> w0.tokens[ShortVault(c)],
                 client_order_id |-> c]
        w1 == [w0 EXCEPT !.deals[c] = deal]
        t1 == transfer_from_user(w0.tokens, Ata(LongParty), LongVault(c), long_deposit)
        t2 == transfer_from_user(t1.tok, Ata(ShortParty), ShortVault(c), short_deposit)
        t3 == transfer_signed(t2.tok, LongVault(c), FeeVault, open_fee_each)
        t4 == transfer_signed(t3.tok, ShortVault(c), FeeVault, open_fee_each)
        gate == IF init_deal_account(w0.deals[c]) # "Ok" THEN init_deal_account(w0.deals[c])
                ELSE IF m.paused THEN "MarketPaused"
                ELSE IF ~(size > 0) THEN "ZeroSize"
                ELSE fresh
        info == [k |-> "open_deal", gate |-> gate, c |-> c, size |-> size,
                 long_deposit |-> long_deposit, short_deposit |-> short_deposit,
                 nav |-> entry_nav, price_decimals |-> m.price_decimals,
                 quote_decimals |-> m.quote_decimals,
                 initial_margin_bps |-> m.initial_margin_bps, fee_bps |-> m.fee_bps,
                 max_leverage_bps |-> m.max_leverage_bps]
    IN IF gate # "Ok" THEN Out(gate, w0, [k |-> "open_deal", gate |-> gate, c |-> c])
       ELSE IF ~margin_ok(long_deposit, im_required_each, open_fee_each)
            THEN Out("InsufficientMargin", w0, info)
       ELSE IF ~margin_ok(short_deposit, im_required_each, open_fee_each)
            THEN Out("InsufficientMargin", w0, info)
       ELSE IF ~(effective_total_margin > 0) THEN Out("InsufficientMargin", w0, info)
       ELSE IF ~(lev_bps <= m.max_leverage_bps) THEN Out("LeverageTooHigh", w0, info)
       ELSE IF w0.deals[c].is_open THEN Out("AlreadyOpen", w0, info)
       ELSE IF ~t1.ok THEN Out("InsufficientFunds", w1, info)
       ELSE IF ~t2.ok THEN Out("InsufficientFunds", [w1 EXCEPT !.tokens = t1.tok], info)
       ELSE IF ~t3.ok THEN Out("InsufficientFunds", [w1 EXCEPT !.tokens = t2.tok], info)
       ELSE IF ~t4.ok THEN Out("InsufficientFunds", [w1 EXCEPT !.tokens = t3.tok], info)
       ELSE Out("Ok", [w1 EXCEPT !.tokens = t4.tok], info)

add_margin_long(w0, c, long, amount) ==
    LET d == w0.deals[c]
        t1 == transfer_from_user(w0.tokens, Ata(long), LongVault(c), amount)
        gate == IF ~d.exists THEN "AccountNotInitialized"
                ELSE IF d.long # long THEN "ConstraintHasOne"
                ELSE IF LongVault(c) \in w0.closed THEN "AccountNotInitialized"
                ELSE IF ~d.is_open THEN "NotOpen"
                ELSE "Ok"
        info == [k |-> "add_margin", gate |-> gate, c |-> c, amount |-> amount]
    IN IF gate # "Ok" THEN Out(gate, w0, Gated("add_margin", gate))
       ELSE IF ~t1.ok THEN Out("InsufficientFunds", w0, info)
       ELSE Out("Ok",
                [w0 EXCEPT !.tokens = t1.tok,
                           !.deals[c].long_margin = w0.tokens[LongVault(c)]],
                info)

add_margin_short(w0, c, short, amount) ==
    LET d == w0.deals[c]
        t1 == transfer_from_user(w0.tokens, Ata(short), ShortVault(c), amount)
        gate == IF ~d.exists THEN "AccountNotInitialized"
                ELSE IF d.short # short THEN "ConstraintHasOne"
                ELSE IF ShortVault(c) \in w0.closed THEN "AccountNotInitialized"
                ELSE IF ~d.is_open THEN "NotOpen"
                ELSE "Ok"
        info == [k |-> "add_margin", gate |-> gate, c |-> c, amount |-> amount]
    IN IF gate # "Ok" THEN Out(gate, w0, Gated("add_margin", gate))
       ELSE IF ~t1.ok THEN Out("InsufficientFunds", w0, info)
       ELSE Out("Ok",
                [w0 EXCEPT !.tokens = t1.tok,
                           !.deals[c].short_margin = w0.tokens[ShortVault(c)]],
                info)

\* a settlement that hands the short side its own vault
Settle_m(long_amt, short_amt, pnl_long) ==
    LET total_pool == long_amt + short_amt
        long_payout == clamp_i128(long_amt + pnl_long, 0, total_pool)
    IN [pool |-> total_pool, long_payout |-> long_payout, short_payout |-> short_amt]

\* the settlement of close_deal and liquidate, from the vault amounts they read
Settle(long_amt, short_amt, pnl_long) ==
    LET total_pool == long_amt + short_amt
        desired_long == long_amt + pnl_long
        long_payout == clamp_i128(desired_long, 0, total_pool)
        short_payout == SatSub(total_pool, long_payout)
    IN [pool |-> total_pool, long_payout |-> long_payout, short_payout |-> short_payout]

\* the account checks of the contexts that take a deal and its two margin vaults
DealAccounts(w0, c) ==
    IF ~w0.deals[c].exists THEN "AccountNotInitialized"
    ELSE IF {LongVault(c), ShortVault(c)} \cap w0.closed # {} THEN "AccountNotInitialized"
    ELSE "Ok"

\* a gate that looks at the pause flag before the deal
deal_gate_m(d, m, t) ==
    IF m.paused THEN "MarketPaused"
    ELSE IF ~d.is_open THEN "NotOpen"
    ELSE ensure_price_fresh(m, t)

\* the first three checks of close_deal, liquidate and liquidate_to_im
deal_gate(d, m, t) ==
    IF ~d.is_open THEN "NotOpen"
    ELSE IF m.paused THEN "MarketPaused"
    ELSE ensure_price_fresh(m, t)

close_deal(w0, c, long, short, t) ==
    LET m == w0.market
        deal == w0.deals[c]
        accounts == DealAccounts(w0, c)
        long_v == w0.tokens[LongVault(c)]
        short_v == w0.tokens[ShortVault(c)]
        pnl_long == pnl_quote(deal.size, deal.entry_nav, m.last_nav,
                              m.price_decimals, m.quote_decimals)
        s == Settle(long_v, short_v, pnl_long)
        t1 == drain_to(w0.tokens, LongVault(c), Ata(long), s.long_payout)
        t2 == drain_to(t1.tok, ShortVault(c), Ata(short), s.short_payout)
        c1 == close_signed_token_account(t2.tok, w0.closed, LongVault(c), long_v)
        c2 == close_signed_token_account(t2.tok, c1.cl, ShortVault(c), short_v)
        gate == IF accounts # "Ok" THEN accounts ELSE deal_gate(deal, m, t)
        info == [k |-> "settle", gate |-> gate, c |-> c, long |-> long, short |-> short,
                 long_v |-> long_v, short_v |-> short_v, pnl_long |-> pnl_long,
                 pool |-> s.pool, bounty |-> 0,
                 long_payout |-> s.long_payout, short_payout |-> s.short_payout]
    IN IF gate # "Ok" THEN Out(gate, w0, Gated("settle", gate))
       ELSE IF ~t1.ok THEN Out("InsufficientFunds", w0, info)
       ELSE IF ~t2.ok THEN Out("InsufficientFunds", [w0 EXCEPT !.tokens = t1.tok], info)
       ELSE IF ~c1.ok \/ ~c2.ok
            THEN Out("NonNativeHasBalance", [w0 EXCEPT !.tokens = t2.tok], info)
       ELSE Out("Ok",
                [w0 EXCEPT !.tokens = t2.tok, !.closed = c2.cl, !.deals[c].is_open = FALSE],
                info)

\* ------------------------------------------------------------------ LiquidationEngine

\* a loss floor that also trips the circuit breaker
socialized_loss_floor_m(m, triggered) ==
    [m EXCEPT !.paused = triggered,
              !.circuit_breaker_until = IF triggered THEN BREAKER_SECS ELSE @]

\* the socialized loss floor of liquidate and liquidate_to_im: pause the market
socialized_loss_floor(m, triggered) ==
    [m EXCEPT !.paused = IF triggered THEN TRUE ELSE @]

\* a short equity that adds the long side's PnL instead of subtracting it
short_equity_m(short_amount, pnl_long) == short_amount + pnl_long

\* the short side's equity: its vault less the long side's PnL
short_equity(short_amount, pnl_long) == short_amount - pnl_long

liquidate(w0, c, liquidator, t) ==
    LET m == w0.market
        d == w0.deals[c]
        accounts == DealAccounts(w0, c)
        \* ctx.accounts.*.amount: the balances read at entry, in every use below
        long_cached == w0.tokens[LongVault(c)]
        short_cached == w0.tokens[ShortVault(c)]
        notional_q == notional_quote(d.size, m.last_nav, m.price_decimals, m.quote_decimals)
        mm_required == bps(notional_q, SatAddU16(m.maintenance_margin_bps, m.mm_buffer_bps))
        pnl_long == pnl_quote(d.size, d.entry_nav, m.last_nav,
                              m.price_decimals, m.quote_decimals)
        long_eq == long_cached + pnl_long
        short_eq == short_equity(short_cached, pnl_long)
        pool == long_cached + short_cached
        lev_bps == IF pool > 0 THEN AsU16(ratio_bps_u128(notional_q, pool)) ELSE U16_MAX
        over_lev == lev_bps > m.max_leverage_bps
        bounty == bps(pool, m.liquidator_bps)
        take_long == Min(bounty, long_cached)
        remaining == bounty - take_long
        b1 == IF bounty > 0 /\ take_long > 0
              THEN drain_to(w0.tokens, LongVault(c), Ata(liquidator), take_long)
              ELSE Skip(w0.tokens)
        b2 == IF bounty > 0 /\ remaining > 0
              THEN drain_to(b1.tok, ShortVault(c), Ata(liquidator), remaining)
              ELSE Skip(b1.tok)
        \* "recompute pool after bounty": long_amt and short_amt are the entry amounts
        long_amt == long_cached
        short_amt == short_cached
        s == Settle(long_amt, short_amt, pnl_long)
        p1 == IF s.long_payout > 0
              THEN drain_to(b2.tok, LongVault(c), Ata(d.long), s.long_payout)
              ELSE Skip(b2.tok)
        p2 == IF s.short_payout > 0
              THEN drain_to(p1.tok, ShortVault(c), Ata(d.short), s.short_payout)
              ELSE Skip(p1.tok)
        depleted == long_cached = 0 \/ short_cached = 0
        c1 == close_signed_token_account(p2.tok, w0.closed, LongVault(c), long_cached)
        c2 == close_signed_token_account(p2.tok, c1.cl, ShortVault(c), short_cached)
        gate == IF accounts # "Ok" THEN accounts
                ELSE IF deal_gate(d, m, t) # "Ok" THEN deal_gate(d, m, t)
                ELSE IF ~(long_eq < mm_required \/ short_eq < mm_required \/ over_lev)
                     THEN "NotLiquidatable"
                ELSE "Ok"
        info == [k |-> "settle", gate |-> gate, c |-> c, long |-> d.long, short |-> d.short,
                 long_v |-> long_cached, short_v |-> short_cached, pnl_long |-> pnl_long,
                 pool |-> s.pool, bounty |-> bounty,
                 long_payout |-> s.long_payout, short_payout |-> s.short_payout,
                 long_eq |-> long_eq, short_eq |-> short_eq, mm_required |-> mm_required]
    IN IF gate = "NotLiquidatable" THEN Out(gate, w0, info)
       ELSE IF gate # "Ok" THEN Out(gate, w0, Gated("settle", gate))
       ELSE IF ~b1.ok THEN Out("InsufficientFunds", w0, info)
       ELSE IF ~b2.ok THEN Out("InsufficientFunds", [w0 EXCEPT !.tokens = b1.tok], info)
       ELSE IF ~p1.ok THEN Out("InsufficientFunds", [w0 EXCEPT !.tokens = b2.tok], info)
       ELSE IF ~p2.ok THEN Out("InsufficientFunds", [w0 EXCEPT !.tokens = p1.tok], info)
       ELSE IF ~c1.ok \/ ~c2.ok
            THEN Out("NonNativeHasBalance", [w0 EXCEPT !.tokens = p2.tok], info)
       ELSE Out("Ok",
                [w0 EXCEPT !.tokens = p2.tok, !.closed = c2.cl,
                           !.deals[c].is_open = FALSE,
                           !.market = socialized_loss_floor(@, depleted)],
                info)

\* the vault liquidate_to_im takes from: the healthy side's
partial_from(under_is_long, c) == IF under_is_long THEN ShortVault(c) ELSE LongVault(c)

\* a deficit that is sent back to the vault it was taken from
partial_to_m(under_is_long, c) == IF under_is_long THEN ShortVault(c) ELSE LongVault(c)

\* the vault liquidate_to_im tops up: the deficient side's
partial_to(under_is_long, c) == IF under_is_long THEN LongVault(c) ELSE ShortVault(c)

liquidate_to_im(w0, c, liquidator, max_bounty_take, t) ==
    LET m == w0.market
        d == w0.deals[c]
        accounts == DealAccounts(w0, c)
        long_cached == w0.tokens[LongVault(c)]
        short_cached == w0.tokens[ShortVault(c)]
        notional_q == notional_quote(d.size, m.last_nav, m.price_decimals, m.quote_decimals)
        im_required == bps(notional_q, m.initial_margin_bps)
        pnl_long == pnl_quote(d.size, d.entry_nav, m.last_nav,
                              m.price_decimals, m.quote_decimals)
        long_eq == long_cached + pnl_long
        short_eq == short_equity(short_cached, pnl_long)
        under_is_long == long_eq < im_required
        deficit == IF long_eq < im_required THEN im_required - long_eq
                   ELSE im_required - short_eq
        bounty == bps(deficit, m.liquidator_bps)
        take_total == Min(deficit + bounty, max_bounty_take)
        deficit_take == SatSub(take_total, bounty)
        from == partial_from(under_is_long, c)
        to == partial_to(under_is_long, c)
        t1 == IF bounty > 0 THEN drain_to(w0.tokens, from, Ata(liquidator), bounty)
              ELSE Skip(w0.tokens)
        t2 == IF deficit_take > 0 THEN drain_to(t1.tok, from, to, deficit_take)
              ELSE Skip(t1.tok)
        \* "refresh cached balances": the amounts read at entry
        long_margin == long_cached
        short_margin == short_cached
        long_eq2 == long_margin + pnl_long
        short_eq2 == short_margin - pnl_long
        gate == IF accounts # "Ok" THEN accounts
                ELSE IF deal_gate(d, m, t) # "Ok" THEN deal_gate(d, m, t)
                ELSE IF ~(long_eq < im_required) /\ ~(short_eq < im_required)
                     THEN "NotLiquidatable"
                ELSE "Ok"
        info == [k |-> "partial", gate |-> gate, c |-> c,
                 max_bounty_take |-> max_bounty_take,
                 long_v |-> long_cached, short_v |-> short_cached,
                 under_is_long |-> under_is_long, im_required |-> im_required,
                 long_eq |-> long_eq, short_eq |-> short_eq,
                 bounty |-> bounty, deficit_take |-> deficit_take]
    IN IF gate = "NotLiquidatable"
       THEN Out(gate, w0,
                [k |-> "partial", gate |-> gate, c |-> c,
                 long_v |-> long_cached, short_v |-> short_cached,
                 under_is_long |-> under_is_long, im_required |-> im_required,
                 long_eq |-> long_eq, short_eq |-> short_eq])
       ELSE IF gate # "Ok" THEN Out(gate, w0, Gated("partial", gate))
       ELSE IF ~t1.ok THEN Out("InsufficientFunds", w0, info)
       ELSE IF ~t2.ok THEN Out("InsufficientFunds", [w0 EXCEPT !.tokens = t1.tok], info)
       ELSE Out("Ok",
                [w0 EXCEPT !.tokens = t2.tok,
                           !.deals[c].long_margin = long_margin,
                           !.deals[c].short_margin = short_margin,
                           !.market =
                               socialized_loss_floor(
                                   @, long_eq2 < im_required \/ short_eq2 < im_required)],
                info)

\* ------------------------------------------------------------------ inputs of the model

\* NAVs posted under Spec: 100 -> 110 and 100 -> 90 are jumps of exactly 1000 bps
TradeNavs == {90, 100, 110}

\* NAVs posted under SpecOracle: 10 -> 76 is a jump of 66000 bps
OracleNavs == {0, 10, 11, 76, 100, 110}

\* nav_confidence under Spec: not supplied
Confidences == {None}

\* nav_confidence under SpecOracle: 66 on a NAV of 10 is a width of 66000 bps
OracleConfidences == {None, 1, 66}

\* parameter updates under SpecOracle: a confidence cap, a jump limit of 100%
OracleParamSets ==
    { [NoParams EXCEPT !.max_confidence_bps = 500],
      [NoParams EXCEPT !.max_nav_jump_bps = 10000] }

\* (size, long_deposit, short_deposit) of the open_deal calls
OpenInputs ==
    { <<0, 105, 105>>, <<1, 0, 0>>, <<100, 55, 55>>, <<100, 105, 55>>, <<100, 55, 150>>,
      <<100, 104, 105>>, <<100, 105, 105>> }

MarginAmounts == {50}

MaxTakes == {0, 100, 1000}

\* signer pairs offered to close_deal as (long, short)
ClosePairs == {<<"alice", "bob">>, <<"carol", "carol">>}

Liquidators == {"carol"}

Sig(key) == [key |-> key, is_signer |-> TRUE]

\* (authority signer, remaining accounts) of an admin call
AdminCalls == {<<"gov", <<>>>>, <<"carol", <<>>>>}

UpdateParamSets ==
    { [NoParams EXCEPT !.initial_margin_bps = 500, !.maintenance_margin_bps = 400],
      [NoParams EXCEPT !.liquidator_bps = 0, !.maintenance_margin_bps = 2000] }

\* admin calls under SpecGov: the authority itself, and somebody else bringing no
\* account, the admin as one signer, the admin's account twice, or unsigned
GovCalls ==
    { <<"gov", <<>>>>, <<"carol", <<>>>>, <<"carol", <<Sig("gov")>>>>,
      <<"carol", <<Sig("gov"), Sig("gov")>>>>,
      <<"carol", <<[key |-> "gov", is_signer |-> FALSE]>>>> }

GovParamSets ==
    { [NoParams EXCEPT !.admin_threshold = 2],
      [NoParams EXCEPT !.admin_threshold = 0],
      [NoParams EXCEPT !.fee_bps = 20000, !.price_stale_seconds = 200] }

\* delay_secs of the proposals
Delays == {0, 100}

NewAuthorities == {"gov", "carol"}

\* ------------------------------------------------------------------ actions

Tick(max_ticks) ==
    /\ now + TickStep <= max_ticks * TickStep
    /\ now' = now + TickStep
    /\ last' = NoCall
    /\ UNCHANGED <<market, deals, tokens, closed, partials>>

PauseMarket ==
    /\ market.exists
    /\ \E call \in AdminCalls, paused \in BOOLEAN :
          Commit("pause_market", pause_market(World, call[1], call[2], paused))

UpdateMarketParams ==
    /\ market.exists
    /\ \E call \in AdminCalls, params \in UpdateParamSets :
          Commit("update_market_params", update_market_params(World, call[1], call[2], params))

PostNavWith(navs, confidences) ==
    /\ market.exists
    /\ \E call \in ({"oracle"} \X navs) \cup {<<"carol", 100>>}, conf \in confidences :
          Commit("post_nav", post_nav(World, call[1], call[2], conf, now))

PostNav(navs) == PostNavWith(navs, Confidences)

UpdateMarketParamsOracle ==
    /\ market.exists
    /\ \E call \in AdminCalls, params \in OracleParamSets :
          Commit("update_market_params", update_market_params(World, call[1], call[2], params))

OpenDeal ==
    /\ market.exists
    /\ \E c \in ClientOrderIds, in \in OpenInputs :
          Commit("open_deal", open_deal(World, c, in[1], in[2], in[3], now))

AddMarginLong ==
    /\ market.exists
    /\ \E c \in ClientOrderIds, u \in {LongParty, "carol"}, amount \in MarginAmounts :
          Commit("add_margin_long", add_margin_long(World, c, u, amount))

AddMarginShort ==
    /\ market.exists
    /\ \E c \in ClientOrderIds, u \in {ShortParty, "carol"}, amount \in MarginAmounts :
          Commit("add_margin_short", add_margin_short(World, c, u, amount))

CloseDeal ==
    /\ market.exists
    /\ \E c \in ClientOrderIds, pair \in ClosePairs :
          Commit("close_deal", close_deal(World, c, pair[1], pair[2], now))

Liquidate ==
    /\ market.exists
    /\ \E c \in ClientOrderIds, liq \in Liquidators :
          Commit("liquidate", liquidate(World, c, liq, now))

LiquidateToIm ==
    /\ market.exists
    /\ partials < MaxPartials
    /\ \E c \in ClientOrderIds, liq \in Liquidators, max_take \in MaxTakes :
          Commit("liquidate_to_im", liquidate_to_im(World, c, liq, max_take, now))

TickTrade == Tick(MaxTicks)

TickOracle == Tick(OracleTicks)

PostNavTrade == PostNav(TradeNavs)

PostNavOracle == PostNavWith(OracleNavs, OracleConfidences)

Next ==
    \/ InitMarket
    \/ TickTrade
    \/ PauseMarket
    \/ UpdateMarketParams
    \/ PostNavTrade
    \/ OpenDeal
    \/ AddMarginLong
    \/ AddMarginShort
    \/ CloseDeal
    \/ Liquidate
    \/ LiquidateToIm

Spec == Init /\ [][Next]_vars

PauseMarketGov ==
    /\ market.exists
    /\ \E call \in GovCalls, paused \in BOOLEAN :
          Commit("pause_market", pause_market(World, call[1], call[2], paused))

UpdateMarketParamsGov ==
    /\ market.exists
    /\ \E call \in GovCalls, params \in GovParamSets :
          Commit("update_market_params", update_market_params(World, call[1], call[2], params))

ProposeMarketParams ==
    /\ market.exists
    /\ \E call \in GovCalls, params \in GovParamSets, delay_secs \in Delays :
          Commit("propose_market_params",
                 propose_market_params(World, call[1], call[2], params, delay_secs, now))

ExecuteMarketParams ==
    /\ market.exists
    /\ \E call \in GovCalls :
          Commit("execute_market_params", execute_market_params(World, call[1], call[2], now))

RotateAuthority ==
    /\ market.exists
    /\ \E call \in GovCalls, new_authority \in NewAuthorities :
          Commit("rotate_authority", rotate_authority(World, call[1], call[2], new_authority))

\* the governance operations alone
NextGov ==
    \/ InitMarket
    \/ TickTrade
    \/ PauseMarketGov
    \/ UpdateMarketParamsGov
    \/ ProposeMarketParams
    \/ ExecuteMarketParams
    \/ RotateAuthority

SpecGov == Init /\ [][NextGov]_vars

\* the oracle gate alone, over a longer stretch of time
NextOracle ==
    \/ InitMarket
    \/ TickOracle
    \/ PauseMarket
    \/ UpdateMarketParamsOracle
    \/ PostNavOracle

SpecOracle == Init /\ [][NextOracle]_vars


\* ------------------------------------------------------------------ settlement (C1, C2)

\* C1: close_deal on an open deal of an unpaused market with a fresh price succeeds
\* at any close NAV, credits the long signer clamp(long vault + pnl_long, 0, pool)
\* and the short signer pool - long_payout, and leaves both margin vaults at 0
\* (vaults 100 and 100 with pnl_long = +100 pay 200 to the long and 0 to the short)
C1_CloseDealSettlesAtAnyNav ==
    (last.op = "close_deal" /\ last.info.gate = "Ok") =>
        LET i == last.info
            total == i.long_v + i.short_v
            long_credit == Max(0, Min(i.long_v + i.pnl_long, total))
        IN /\ last.res = "Ok"
           /\ i.long # i.short =>
                  /\ last.paid[i.long] = long_credit
                  /\ last.paid[i.short] = total - long_credit
           /\ tokens[LongVault(i.c)] = 0
           /\ tokens[ShortVault(i.c)] = 0

\* C2: in every successful close_deal and every successful liquidate the two
\* payouts sum to the pool, the sum of the two margin-vault balances the
\* settlement is computed from; the long payout is the clamped long_v + pnl_long
C2_PayoutsSumToPool ==
    (last.op \in {"close_deal", "liquidate"} /\ last.res = "Ok") =>
        LET i == last.info
        IN /\ i.pool = i.long_v + i.short_v
           /\ i.long_payout + i.short_payout = i.pool
           /\ i.long_payout = Max(0, Min(i.long_v + i.pnl_long, i.pool))
           /\ i.long_payout >= 0 /\ i.short_payout >= 0

\* C2 happens: a liquidate succeeded on a deal whose vaults held funds
C2_SuccessfulSettlement ==
    /\ last.op = "liquidate" /\ last.res = "Ok"
    /\ last.info.long_v > 0 /\ last.info.short_v > 0

\* ------------------------------------------------------------------ atomicity (C3)

C4_JumpAboveLimitRejected ==
    (last.op = "post_nav" /\ last.info.gate = "Ok" /\ last.info.old_nav # 0) =>
        LET i == last.info
            jump == (Abs(i.nav - i.old_nav) * 10000) \div i.old_nav
        IN /\ jump > i.max_jump =>
                  /\ last.res = "PriceJumpTooLarge"
                  /\ market.last_nav = i.old_nav
                  /\ market.last_ts = i.old_ts
           /\ last.res = "Ok" => jump <= i.max_jump

\* C5: after post_nav has failed with PriceJumpTooLarge at time t the market's
\* circuit_breaker_until is t + 300 (so that post_nav before t + 300 fails with
\* CircuitBreaker)
C5_BreakerSetByRejection ==
    (last.op = "post_nav" /\ last.res = "PriceJumpTooLarge") =>
        market.circuit_breaker_until = last.t + 300

\* ------------------------------------------------------------------ open_deal (C6, C7)

\* C6: no deal is opened with floor(notional * 10000 / (long_deposit +
\* short_deposit - open_fee_total)) above max_leverage_bps, and an open whose
\* effective total margin is not positive fails with InsufficientMargin
C6_NoDealAboveLeverageCap ==
    (last.op = "open_deal" /\ last.info.gate = "Ok") =>
        LET i == last.info
            notional == notional_quote(i.size, i.nav, i.price_decimals, i.quote_decimals)
            fee_total == (notional * i.fee_bps) \div 10000
            margin == i.long_deposit + i.short_deposit - fee_total
        IN /\ margin <= 0 => last.res = "InsufficientMargin"
           /\ (margin > 0 /\ (notional * 10000) \div margin > i.max_leverage_bps) =>
                  last.res \in {"LeverageTooHigh", "InsufficientMargin"}

\* C7: on an unpaused market with a fresh price and size > 0, open_deal fails with
\* InsufficientMargin when a deposit is below bps(notional, initial_margin_bps) +
\* floor(bps(notional, fee_bps) / 2); deposits equal to that sum meet the
\* requirement; an open_deal that fails creates no deal and moves no funds
C7_OpenDealMarginRequirement ==
    last.op = "open_deal" =>
        LET i == last.info
        IN /\ i.gate = "Ok" =>
                LET notional == notional_quote(i.size, i.nav, i.price_decimals,
                                               i.quote_decimals)
                    fee_total == (notional * i.fee_bps) \div 10000
                    req == (notional * i.initial_margin_bps) \div 10000 + fee_total \div 2
                    margin == i.long_deposit + i.short_deposit - fee_total
                IN /\ (i.long_deposit < req \/ i.short_deposit < req) =>
                       last.res = "InsufficientMargin"
                   /\ (i.long_deposit >= req /\ i.short_deposit >= req /\ margin > 0) =>
                       last.res # "InsufficientMargin"
           /\ (last.res # "Ok" /\ i.gate # "AccountAlreadyInUse") =>
                /\ ~deals[i.c].exists
                /\ tokens[LongVault(i.c)] = 0 /\ tokens[ShortVault(i.c)] = 0
                /\ \A u \in Users : last.paid[u] = 0

\* C7 happens: an open_deal was refused for a long deposit one unit below the
\* requirement that the short deposit met exactly
C7_OneUnitShort ==
    /\ last.op = "open_deal" /\ last.res = "InsufficientMargin"
    /\ last.info.gate = "Ok"
    /\ LET i == last.info
           notional == notional_quote(i.size, i.nav, i.price_decimals, i.quote_decimals)
           req == (notional * i.initial_margin_bps) \div 10000
                  + ((notional * i.fee_bps) \div 10000) \div 2
       IN i.long_deposit = req - 1 /\ i.short_deposit = req

\* ------------------------------------------------------------------ liquidation (C8, C9)

\* what a successful liquidate_to_im took out of the healthy side's vault
PartialOutflow ==
    IF last.info.under_is_long
    THEN last.info.short_v - tokens[ShortVault(last.info.c)]
    ELSE last.info.long_v - tokens[LongVault(last.info.c)]

\* C8: a successful liquidate_to_im moves at most max_bounty_take (bounty plus
\* deficit) out of the healthy side's vault, also when max_bounty_take is smaller
\* than the bounty
C8_TakeWithinMaxBountyTake ==
    (last.op = "liquidate_to_im" /\ last.res = "Ok") =>
        /\ PartialOutflow <= last.info.max_bounty_take
        /\ last.info.bounty + last.info.deficit_take <= last.info.max_bounty_take

\* C9: liquidate pays the liquidator bps(pre-call pool, liquidator_bps), settles
\* the pool of the vault balances as reduced by the bounty, and bounty +
\* long_payout + short_payout is the pre-call sum of the two vaults; a liquidation
\* of a liquidatable deal goes through on these amounts
C9_BountyThenReducedPool ==
    (last.op = "liquidate" /\ last.info.gate = "Ok") =>
        LET i == last.info
            pre == i.long_v + i.short_v
        IN /\ i.pool = pre - i.bounty
           /\ i.bounty + i.long_payout + i.short_payout = pre
           /\ last.res = "Ok"

\* ------------------------------------------------------------------ liquidate gate (C11)

\* C11: on an open deal of an unpaused market with a fresh price, liquidate fails
\* with NotLiquidatable exactly when long equity >= mm_required, short equity >=
\* mm_required and floor(notional * 10000 / pool) <= max_leverage_bps (an empty
\* pool counting as over-levered), mm_required being bps(notional,
\* maintenance_margin_bps + mm_buffer_bps)
C11_NotLiquidatableExactlyWhenHealthy ==
    (last.op = "liquidate" /\ last.info.gate \in {"Ok", "NotLiquidatable"}) =>
        LET i == last.info
            d == deals[i.c]
            notional == notional_quote(d.size, market.last_nav, market.price_decimals,
                                       market.quote_decimals)
            mm_required ==
                (notional * (market.maintenance_margin_bps + market.mm_buffer_bps)) \div 10000
            pool == i.long_v + i.short_v
            over_leverage ==
                pool = 0 \/ (notional * 10000) \div pool > market.max_leverage_bps
            breach == \/ i.long_v + i.pnl_long < mm_required
                      \/ i.short_v - i.pnl_long < mm_required
                      \/ over_leverage
        IN (last.res = "NotLiquidatable") <=> ~breach

\* ------------------------------------------------------------------ multisig (C12)

\* the distinct non-sentinel admins among the signers of an admin call's remaining
\* accounts
DistinctAdminSigners(i) ==
    LET signers == {i.remaining[j].key : j \in {n \in DOMAIN i.remaining : i.remaining[n].is_signer}}
        members == {i.pre.admins[n] : n \in 1..MAX_ADMINS} \ {DefaultKey}
    IN Cardinality(signers \cap members)

\* C12: an admin operation called by someone other than the governance authority
\* passes authorization only if the number of distinct, non-sentinel admin-set
\* members among the call's signers is >= admin_threshold (an admin supplied more
\* than once counts once), and otherwise fails with NotEnoughSigners
C12_DistinctAdminsReachThreshold ==
    (last.info.k = "admin" /\ last.info.caller # last.info.pre.authority) =>
        LET i == last.info
            enough == DistinctAdminSigners(i) >= i.pre.admin_threshold
        IN /\ enough <=> i.gate = "Ok"
           /\ ~enough => last.res = "NotEnoughSigners"
           /\ last.res = "Ok" => enough

\* ------------------------------------------------------------------ gates (C13, C14, C15, C16)

TradingOps ==
    {"open_deal", "add_margin_long", "add_margin_short", "close_deal", "liquidate",
     "liquidate_to_im"}

\* results of a call whose accounts were refused before the handler ran
AccountErrors == {"AccountAlreadyInUse", "AccountNotInitialized", "ConstraintHasOne"}

\* C13: while the market is paused, post_nav and every trading or liquidation
\* operation on an open deal is rejected with MarketPaused and changes no balance
C13_PausedRejectsEverything ==
    (/\ last.paused
     /\ last.op \in TradingOps \cup {"post_nav"}
     /\ last.info.gate \notin AccountErrors \cup {"NotOpen"}) =>
        /\ last.res = "MarketPaused"
        /\ \A u \in Users : last.paid[u] = 0

\* the result ensure_price_fresh is to give at the time of the last call
ExpectedFreshness ==
    IF last.t < market.circuit_breaker_until THEN "CircuitBreaker"
    ELSE IF market.last_nav = 0 THEN "PriceNotSet"
    ELSE IF last.t < market.last_ts THEN "ClockWentBackwards"
    ELSE IF last.t - market.last_ts > market.price_stale_seconds THEN "PriceStale"
    ELSE "Ok"

\* C14: no open_deal, close_deal, liquidate or liquidate_to_im succeeds while now <
\* circuit_breaker_until, last_nav = 0, now < last_ts or now - last_ts >
\* price_stale_seconds; a call that gets to the price check fails with
\* CircuitBreaker, PriceNotSet, ClockWentBackwards or PriceStale, tested in that
\* order; a price exactly price_stale_seconds old is fresh
C14_PriceFreshnessOrder ==
    (last.op \in {"open_deal", "close_deal", "liquidate", "liquidate_to_im"}) =>
        /\ ExpectedFreshness # "Ok" =>
              /\ last.res # "Ok"
              /\ last.res \in AccountErrors \cup {"NotOpen", "MarketPaused", "ZeroSize",
                                                  ExpectedFreshness}
        /\ ExpectedFreshness = "Ok" =>
              last.res \notin {"CircuitBreaker", "PriceNotSet", "ClockWentBackwards",
                               "PriceStale"}

\* C14 happens: a call on an unpaused market was refused for a price older than
\* price_stale_seconds
C14_StalePriceRefused ==
    /\ last.op \in {"open_deal", "close_deal", "liquidate", "liquidate_to_im"}
    /\ last.res = "PriceStale"
    /\ last.t - market.last_ts > market.price_stale_seconds

\* C15: on a deal that has been closed or liquidated, close_deal, liquidate,
\* add_margin_long, add_margin_short and liquidate_to_im fail with NotOpen whatever
\* the pause state, the price freshness or the NAV (given accounts that pass
\* validation), and no such call moves funds
C15_ClosedDealRejectsCalls ==
    (/\ last.op \in TradingOps \ {"open_deal"}
     /\ \E c \in ClientOrderIds : deals[c].exists /\ ~deals[c].is_open
     /\ ~(last.op \in {"close_deal", "liquidate"} /\ last.res = "Ok")) =>
        /\ last.res # "Ok"
        /\ last.info.gate \notin AccountErrors => last.res = "NotOpen"
        /\ \A u \in Users : last.paid[u] = 0
        /\ \A c \in ClientOrderIds : tokens[LongVault(c)] = 0 /\ tokens[ShortVault(c)] = 0

\* C15 happens: a call on a closed deal was refused with NotOpen while the market
\* was paused
C15_NotOpenWhilePaused ==
    /\ last.op \in {"close_deal", "liquidate"} /\ last.res = "NotOpen"
    /\ last.paused

\* C16: a deal that is closed stays closed: no operation, open_deal with the same
\* parties and client_order_id included, makes is_open true again
C16_NoReopen ==
    [][\A c \in ClientOrderIds :
          (deals[c].exists /\ ~deals[c].is_open) =>
              (deals'[c].exists /\ ~deals'[c].is_open)]_vars

\* C16 happens: open_deal was called for a deal that is closed
C16_OpenOnClosedDeal ==
    /\ last.op = "open_deal" /\ last.res = "AccountAlreadyInUse"
    /\ \E c \in ClientOrderIds : deals[c].exists /\ ~deals[c].is_open

\* ------------------------------------------------------------------ liquidate pause (C17)

\* C17: a successful liquidate sets market.paused when, after the bounty and the
\* settlement transfers, the long or the short margin vault holds exactly 0, and
\* leaves paused as it was otherwise
C17_PausedWhenVaultEmptied ==
    (last.op = "liquidate" /\ last.res = "Ok") =>
        LET c == last.info.c
        IN market.paused =
              (IF tokens[LongVault(c)] = 0 \/ tokens[ShortVault(c)] = 0 THEN TRUE
               ELSE last.paused)

\* ------------------------------------------------------------------ timelock (C18, C19)

\* the optional numeric fields of MarketUpdateParams
ParamFields ==
    {"initial_margin_bps", "maintenance_margin_bps", "fee_bps", "liquidator_bps",
     "price_stale_seconds", "max_leverage_bps", "max_nav_jump_bps", "max_confidence_bps",
     "mm_buffer_bps", "admin_threshold"}

\* the fields of Market that no parameter update touches
FixedFields ==
    {"exists", "authority", "price_decimals", "quote_decimals", "last_nav", "last_ts",
     "paused", "circuit_breaker_until", "admins"}

\* the market holds what it held in `pre`, with exactly the fields that p sets replaced
ExactlyApplied(pre, p) ==
    /\ \A f \in ParamFields : market[f] = (IF p[f] = -1 THEN pre[f] ELSE p[f])
    /\ market.oracle_authority =
          (IF p.oracle_authority = "none" THEN pre.oracle_authority ELSE p.oracle_authority)
    /\ \A f \in FixedFields : market[f] = pre[f]

\* C18: execute_market_params fails with NoPendingParams when nothing is pending
\* and with TimelockNotExpired when now < eta, eta being the time of the
\* propose_market_params call plus its delay; otherwise it applies exactly the
\* stored parameters and clears the pending slot
C18_TimelockedExecute ==
    /\ (last.op = "propose_market_params" /\ last.res = "Ok") =>
          /\ market.pending.some
          /\ market.pending.eta = last.t + last.info.delay_secs
    /\ (last.op = "execute_market_params" /\ last.info.gate = "Ok") =>
          LET pre == last.info.pre
              p == pre.pending
          IN /\ ~p.some => (last.res = "NoPendingParams" /\ market = pre)
             /\ (p.some /\ last.t < p.eta) =>
                    (last.res = "TimelockNotExpired" /\ market = pre)
             /\ (p.some /\ last.t >= p.eta) =>
                    /\ last.res = "Ok"
                    /\ ~market.pending.some
                    /\ ExactlyApplied(pre, p.params)

\* C18 happens: a proposal with a delay was executed once its eta had come
C18_ExecutedAfterEta ==
    /\ last.op = "execute_market_params" /\ last.res = "Ok"
    /\ last.info.pre.pending.eta > 0
    /\ last.t >= last.info.pre.pending.eta

\* C19: one proposal is pending at most: a successful propose_market_params(P, d)
\* leaves the pending slot holding exactly (P, now + d) whatever was pending
\* before and applies nothing, and an execute applies no field that the pending
\* proposal does not set
C19_ProposalReplacesPending ==
    /\ (last.op = "propose_market_params" /\ last.res = "Ok") =>
          /\ market.pending =
                [some |-> TRUE, params |-> last.info.params,
                 eta |-> last.t + last.info.delay_secs]
          /\ ExactlyApplied(last.info.pre, NoParams)
    /\ (last.op = "execute_market_params" /\ last.res = "Ok") =>
          LET pre == last.info.pre
          IN /\ \A f \in ParamFields :
                    pre.pending.params[f] = -1 => market[f] = pre[f]
             /\ ~market.pending.some

\* C19 happens: a proposal replaced a different one that was still pending
C19_ProposalOverwritten ==
    /\ last.op = "propose_market_params" /\ last.res = "Ok"
    /\ last.info.pre.pending.some
    /\ last.info.pre.pending.params # last.info.params

\* ------------------------------------------------------------------ partial liquidation (C20)

\* C20: after a successful liquidate_to_im the deal is still open, and when
\* deficit_take = take_total - bounty is > 0 the deficient side's vault holds
\* exactly deficit_take more than before the call
C20_PartialTopsUpDeficientSide ==
    (last.op = "liquidate_to_im" /\ last.res = "Ok") =>
        LET i == last.info
            deficit == i.im_required - (IF i.under_is_long THEN i.long_eq ELSE i.short_eq)
            bounty == (deficit * market.liquidator_bps) \div 10000
            take_total == Min(deficit + bounty, i.max_bounty_take)
            deficit_take == take_total - bounty
            before == IF i.under_is_long THEN i.long_v ELSE i.short_v
            after == IF i.under_is_long THEN tokens[LongVault(i.c)]
                     ELSE tokens[ShortVault(i.c)]
        IN /\ deals[i.c].is_open
           /\ deficit_take > 0 => (after = before + deficit_take /\ after > before)

\* C20 happens: a liquidate_to_im moved part of the deficit
C20_DeficitMoved ==
    /\ last.op = "liquidate_to_im" /\ last.res = "Ok"
    /\ last.info.deficit_take > 0

\* ------------------------------------------------------------------ PnL symmetry (C21)

\* sizes, NAVs and decimal precisions at which pnl_quote is evaluated
PnlSizes == {0, 1, 100}

PnlNavs == {0, 10, 90, 100, 110}

PnlPriceDecimals == {0, 1, 2}

PnlQuoteDecimals == {5, 6, 8}

\* C21: pnl_quote(size, nav, nav) is 0 for all sizes, NAVs and decimal
\* precisions, and in liquidate and liquidate_to_im the short side's PnL is the
\* exact negation of the long side's, so long_equity + short_equity equals
\* long_vault + short_vault
C21_PnlZeroSumEquities ==
    (last.op \in {"liquidate", "liquidate_to_im"}
        /\ last.info.gate \in {"Ok", "NotLiquidatable"}) =>
        LET i == last.info
            d == deals[i.c]
        IN /\ \A size \in PnlSizes \cup {d.size}, nav \in PnlNavs \cup {market.last_nav},
                 pd \in PnlPriceDecimals, qd \in PnlQuoteDecimals :
                  pnl_quote(size, nav, nav, pd, qd) = 0
           /\ i.short_eq - i.short_v = -(i.long_eq - i.long_v)
           /\ i.long_eq + i.short_eq = i.long_v + i.short_v
           /\ last.op = "liquidate" => i.long_eq - i.long_v = i.pnl_long

\* C21 happens: a liquidation succeeded with a PnL that is not 0
C21_EquitiesWithPnl ==
    /\ last.op \in {"liquidate", "liquidate_to_im"} /\ last.res = "Ok"
    /\ last.info.long_eq # last.info.long_v

\* ------------------------------------------------------------------ close authority (C22)

\* C22: close_deal succeeds only when the signers passed as long and short are
\* the deal's recorded long and short parties, and credits the payouts only to
\* the token accounts of deal.long and deal.short
C22_OnlyPartiesCloseDeal ==
    (last.op = "close_deal" /\ last.res = "Ok") =>
        LET i == last.info
            d == deals[i.c]
        IN /\ i.long = d.long
           /\ i.short = d.short
           /\ \A u \in Users \ {d.long, d.short} : last.paid[u] = 0

\* ------------------------------------------------------------------ admin authority (C23)

AdminOps ==
    {"pause_market", "update_market_params", "propose_market_params",
     "execute_market_params", "rotate_authority"}

\* the call carries the signature of a member of the admin set of market m
SignedByAdmin(m, remaining) ==
    \E i \in DOMAIN remaining :
        /\ remaining[i].is_signer
        /\ \E j \in 1..MAX_ADMINS : m.admins[j] # DefaultKey /\ m.admins[j] = remaining[i].key

\* C23: whatever admin_threshold holds, a caller who is not the governance
\* authority and whose call carries no signature of an admin-set member does not
\* succeed in pause_market, update_market_params, propose_market_params,
\* execute_market_params or rotate_authority
C23_OutsiderNeverAuthorized ==
    (last.op \in AdminOps /\ last.res = "Ok") =>
        \/ last.info.caller = last.info.pre.authority
        \/ SignedByAdmin(last.info.pre, last.info.remaining)

\* ------------------------------------------------------------------ partial liquidation sides (C24, C25)

\* C24: liquidate_to_im fails with NotLiquidatable when neither side is below
\* im_required; whenever it transfers funds exactly one side is below
\* im_required, the side it credits is that side, and the side it takes the
\* bounty and the deficit from has equity >= im_required before the call
C24_TakesFromTheHealthySide ==
    (last.op = "liquidate_to_im" /\ last.info.gate \in {"Ok", "NotLiquidatable"}) =>
        LET i == last.info
            long_under == i.long_eq < i.im_required
            short_under == i.short_eq < i.im_required
            from_eq == IF i.under_is_long THEN i.short_eq ELSE i.long_eq
        IN /\ (~long_under /\ ~short_under) => last.res = "NotLiquidatable"
           /\ (last.res = "Ok" /\ (i.bounty > 0 \/ i.deficit_take > 0)) =>
                  /\ long_under # short_under
                  /\ i.under_is_long = long_under
                  /\ from_eq >= i.im_required

\* C25: a successful liquidate_to_im sets market.paused exactly when, with both
\* equities recomputed from the vault balances after its transfers, one of them
\* is below im_required; a deal brought back to im_required on both sides leaves
\* the market unpaused
C25_PausedWhenStillUnderIm ==
    (last.op = "liquidate_to_im" /\ last.res = "Ok") =>
        LET i == last.info
            pnl_long == i.long_eq - i.long_v
            long_eq2 == tokens[LongVault(i.c)] + pnl_long
            short_eq2 == tokens[ShortVault(i.c)] - pnl_long
        IN market.paused = (long_eq2 < i.im_required \/ short_eq2 < i.im_required)

\* ------------------------------------------------------------------ pause persistence (C26)

\* every operation of the program on one market with one deal, the governance
\* operations with a single parameter set (a raise of the initial margin) and no
\* delay
PauseParamSets == {[NoParams EXCEPT !.initial_margin_bps = 2000]}

PauseOpenInputs == {<<100, 105, 105>>}

PauseNavs == {100, 110}

PostNavPause == PostNav(PauseNavs)

OpenDealPause ==
    /\ market.exists
    /\ \E c \in ClientOrderIds, in \in PauseOpenInputs :
          Commit("open_deal", open_deal(World, c, in[1], in[2], in[3], now))

UpdateMarketParamsPause ==
    /\ market.exists
    /\ \E call \in AdminCalls, params \in PauseParamSets :
          Commit("update_market_params", update_market_params(World, call[1], call[2], params))

ProposeMarketParamsPause ==
    /\ market.exists
    /\ \E call \in AdminCalls, params \in PauseParamSets :
          Commit("propose_market_params",
                 propose_market_params(World, call[1], call[2], params, 0, now))

ExecuteMarketParamsPause ==
    /\ market.exists
    /\ \E call \in AdminCalls :
          Commit("execute_market_params", execute_market_params(World, call[1], call[2], now))

RotateAuthorityPause ==
    /\ market.exists
    /\ \E call \in AdminCalls, new_authority \in NewAuthorities :
          Commit("rotate_authority", rotate_authority(World, call[1], call[2], new_authority))

NextPause ==
    \/ InitMarket
    \/ TickTrade
    \/ PauseMarket
    \/ UpdateMarketParamsPause
    \/ ProposeMarketParamsPause
    \/ ExecuteMarketParamsPause
    \/ RotateAuthorityPause
    \/ PostNavPause
    \/ OpenDealPause
    \/ AddMarginLong
    \/ AddMarginShort
    \/ CloseDeal
    \/ Liquidate
    \/ LiquidateToIm

SpecPause == Init /\ [][NextPause]_vars

\* C26: a paused market stays paused until an authorized pause_market(false):
\* no post_nav, trading, liquidation, update_market_params, propose or
\* execute_market_params or rotate_authority call clears the flag, and while it
\* is set no deal is opened, closed or liquidated
C26_PausedUntilGovernanceUnpauses ==
    [][market.paused =>
          /\ ~market'.paused =>
                /\ last'.op = "pause_market" /\ last'.res = "Ok"
                /\ \/ last'.info.caller = market.authority
                   \/ SignedByAdmin(market, last'.info.remaining)
          /\ last'.op \in {"open_deal", "close_deal", "liquidate", "liquidate_to_im"} =>
                last'.res # "Ok"]_vars

\* C26 happens: after a liquidate_to_im had succeeded, which pauses the market,
\* a call on the deal was refused with MarketPaused
C26_RefusedAfterLiquidationPause ==
    /\ partials > 0
    /\ market.paused
    /\ last.paused
    /\ last.op \in {"close_deal", "liquidate", "post_nav"}
    /\ last.res = "MarketPaused"

\* ------------------------------------------------------------------ priced market (C27, C28, C29)

\* C27: once a NAV has been accepted (last_nav # 0), last_nav is non-zero in
\* every later state: no post_nav and no other operation returns the market to
\* the no-price state
C27_PricedStaysPriced ==
    [][market.last_nav # 0 => market'.last_nav # 0]_vars

\* the confidence width of a post, floor(confidence * 10000 / max(nav, 1)), is
\* above the cap of the market
ConfidenceTooWide(i) ==
    /\ i.max_conf > 0
    /\ i.conf # None
    /\ (i.conf * 10000) \div Max(i.nav, 1) > i.max_conf

\* the jump of a post relative to the stored NAV is within max_nav_jump_bps
JumpWithinLimit(i) ==
    \/ i.old_nav = 0
    \/ (Abs(i.nav - i.old_nav) * 10000) \div i.old_nav <= i.max_jump

\* a post_nav made by the oracle authority on an unpaused market
OraclePost ==
    /\ last.op = "post_nav"
    /\ last.info.gate \notin {"MarketPaused", "Unauthorized"}

C29_WideConfidenceRejected ==
    (OraclePost /\ last.t >= last.info.breaker_until) =>
        LET i == last.info
        IN /\ ConfidenceTooWide(i) =>
                  /\ last.res = "OracleConfidenceTooWide"
                  /\ market.last_nav = i.old_nav
                  /\ market.last_ts = i.old_ts
           /\ (i.max_conf = 0 \/ i.conf = None) => last.res # "OracleConfidenceTooWide"

\* ------------------------------------------------------------------ rate ranges (C30)

\* C30: after any sequence of init_market, update_market_params and
\* execute_market_params calls the stored initial_margin_bps,
\* maintenance_margin_bps, fee_bps and liquidator_bps are each within 0..10000
C30_RatesWithinBps ==
    market.exists =>
        \A f \in {"initial_margin_bps", "maintenance_margin_bps", "fee_bps", "liquidator_bps"} :
            market[f] \in 0..BPS_DENOM

\* ------------------------------------------------------------------ market frame (C31, C32)

\* C31: open_deal, add_margin_long, add_margin_short, close_deal, liquidate and
\* liquidate_to_im change no field of the market other than paused (last_nav,
\* last_ts, circuit_breaker_until, the pending proposal, the authority, the
\* admin set and every parameter keep their values), and paused only from
\* false to true
C31_TradingLeavesMarketAlone ==
    [][last'.op \in TradingOps =>
          /\ [market' EXCEPT !.paused = market.paused] = market
          /\ market.paused => market'.paused]_vars

\* C31 happens: a liquidation paused a market that has a proposal pending
C31_LiquidationPausedMarket ==
    /\ last.op \in {"liquidate", "liquidate_to_im"} /\ last.res = "Ok"
    /\ ~last.paused
    /\ market.paused
    /\ market.pending.some
    /\ market.last_nav # 0

\* C32: update_market_params, and the apply step of execute_market_params,
\* change exactly the parameters supplied as Some(..): a parameter passed as
\* None keeps its value, and last_nav, last_ts, paused, circuit_breaker_until,
\* the authority and the admin set are unchanged; update_market_params also
\* leaves a pending proposal in place
C32_OnlySuppliedParamsChange ==
    /\ (last.op = "update_market_params" /\ last.res = "Ok") =>
          /\ ExactlyApplied(last.info.pre, last.info.params)
          /\ market.pending = last.info.pre.pending
    /\ (last.op = "execute_market_params" /\ last.res = "Ok") =>
          ExactlyApplied(last.info.pre, last.info.pre.pending.params)

\* C32 happens: an update was applied to a priced market while a proposal was
\* pending
C32_UpdateWithProposalPending ==
    /\ last.op = "update_market_params" /\ last.res = "Ok"
    /\ last.info.pre.pending.some
    /\ last.info.pre.last_nav # 0
    /\ market.initial_margin_bps # last.info.pre.initial_margin_bps

\* ------------------------------------------------------------------ fee vault (C33)

\* C33: the fee vault balance never decreases, and it increases only in a
\* successful open_deal, by exactly 2 * floor(bps(notional, fee_bps) / 2), each
\* side's margin vault being left with its deposit minus floor(fee_total / 2)
C33_FeeVaultOnlyGrowsAtOpen ==
    [][/\ tokens'[FeeVault] >= tokens[FeeVault]
       /\ tokens'[FeeVault] > tokens[FeeVault] =>
             /\ last'.op = "open_deal" /\ last'.res = "Ok"
       /\ (last'.op = "open_deal" /\ last'.res = "Ok") =>
             LET i == last'.info
                 notional == notional_quote(i.size, i.nav, i.price_decimals, i.quote_decimals)
                 fee_total == (notional * i.fee_bps) \div 10000
                 half == fee_total \div 2
             IN /\ tokens'[FeeVault] = tokens[FeeVault] + 2 * half
                /\ tokens'[LongVault(i.c)] = i.long_deposit - half
                /\ tokens'[ShortVault(i.c)] = i.short_deposit - half]_vars

\* C33 happens: a deal was opened with an odd total fee, of which the fee vault
\* received one unit less
C33_OddFeeCollected ==
    /\ last.op = "open_deal" /\ last.res = "Ok"
    /\ LET i == last.info
           notional == notional_quote(i.size, i.nav, i.price_decimals, i.quote_decimals)
           fee_total == (notional * i.fee_bps) \div 10000
       IN /\ fee_total % 2 = 1
          /\ tokens[FeeVault] = fee_total - 1

\* ------------------------------------------------------------------ authority and admins[0] (C34)

\* the members of the admin set of market m
AdminSet(m) == {m.admins[j] : j \in 1..MAX_ADMINS} \ {DefaultKey}

\* C34: admins[0] equals the governance authority in every reachable state, and
\* after a rotation to another key the previous authority is neither the
\* governance authority nor a member of the admin set
C34_FirstAdminIsAuthority ==
    /\ market.exists => market.admins[1] = market.authority
    /\ (last.op = "rotate_authority" /\ last.res = "Ok") =>
          LET prev == last.info.pre.authority
          IN market.authority # prev => prev \notin AdminSet(market)

\* C34 happens: the authority was rotated to another key
C34_AuthorityRotated ==
    /\ last.op = "rotate_authority" /\ last.res = "Ok"
    /\ market.authority # last.info.pre.authority
    /\ market.admins[1] = market.authority

\* ------------------------------------------------------------------ vaults (C10)

====
